---- MODULE Spec2Model ----
(***************************************************************************)
(* Token lifecycle and access control of the store-rating backend:         *)
(* backend/utils/jwt.js, backend/auth/authMiddleware.js,                   *)
(* backend/auth/authController.js and backend/models/User.js.              *)
(*                                                                         *)
(* A JWT string is a deterministic function of its claims and of the       *)
(* signing secret, so a token is modelled as the record of its claims plus *)
(* the secret that signed it; two tokens are the same string exactly when  *)
(* the records are equal.  Time is counted in whole ticks.                 *)
(***************************************************************************)
EXTENDS Integers, Sequences, FiniteSets, TLC

VARIABLES
  env,            \* process.env: JWT_SECRET, JWT_REFRESH_SECRET, JWT_REFRESH_EXPIRE
  module,         \* loading state of utils/jwt.js
  warned,         \* console.warn about a short secret was printed
  now,            \* wall clock
  users,          \* the users table
  tokenBlacklist, \* jwt.js tokenBlacklist (a Set of token strings)
  timers,         \* pending setTimeout removal callbacks of blacklistToken
  nextId,         \* number of crypto.randomUUID() values drawn so far
  issued,         \* token strings handed out to clients
  reqs,           \* in-flight POST /api/auth/refresh requests
  rotationLog,    \* refresh tokens in the order they were exchanged for a pair
  req,            \* request context, or payload, handed to a single operation
  last,           \* outcome of the most recently completed request or sweep
  ratings         \* the ratings table

vars == <<env, module, warned, now, users, tokenBlacklist, timers, nextId,
          issued, reqs, rotationLog, req, last, ratings>>

----------------------------------------------------------------------------
(* Bounds *)

MaxTime == 2
MaxIds == 3
MaxSessions == 1
MaxHdrLen == 3
MaxParamLen == 3
MaxTestTokens == 1

(* Program constants.  Durations are in ticks and keep their order:     *)
(* '15m' < '7d' < 2^31 - 1 ms (about 24.8 days) < '30d'.                *)

JWT_EXPIRE == 1
DefaultRefreshExpire == 2
MinSecretLen == 32

\* the longest delay setTimeout honours; a longer one is set to 1 ms
TIMEOUT_MAX == 7

----------------------------------------------------------------------------
(* Configuration: a secret is identified by its length; 0 is an absent or *)
(* empty variable.                                                        *)

\* JWT_SECRET absent, with or without JWT_REFRESH_SECRET; too short; long
\* with JWT_REFRESH_SECRET unset (the default); long with a separate
\* JWT_REFRESH_SECRET
\* JWT_REFRESH_EXPIRE: 0 when unset, else the configured lifetime ('30d')
Environments ==
  {[JWT_SECRET |-> 0, JWT_REFRESH_SECRET |-> 0, JWT_REFRESH_EXPIRE |-> 0],
   [JWT_SECRET |-> 0, JWT_REFRESH_SECRET |-> 48, JWT_REFRESH_EXPIRE |-> 0],
   [JWT_SECRET |-> 16, JWT_REFRESH_SECRET |-> 0, JWT_REFRESH_EXPIRE |-> 0],
   [JWT_SECRET |-> 32, JWT_REFRESH_SECRET |-> 0, JWT_REFRESH_EXPIRE |-> 0],
   [JWT_SECRET |-> 32, JWT_REFRESH_SECRET |-> 48, JWT_REFRESH_EXPIRE |-> 0],
   [JWT_SECRET |-> 32, JWT_REFRESH_SECRET |-> 0, JWT_REFRESH_EXPIRE |-> 9]}

JWT_SECRET == env.JWT_SECRET

JWT_REFRESH_SECRET ==
  IF env.JWT_REFRESH_SECRET # 0 THEN env.JWT_REFRESH_SECRET ELSE env.JWT_SECRET

\* process.env.JWT_REFRESH_EXPIRE || '7d'
JWT_REFRESH_EXPIRE ==
  IF env.JWT_REFRESH_EXPIRE # 0 THEN env.JWT_REFRESH_EXPIRE
  ELSE DefaultRefreshExpire

----------------------------------------------------------------------------
(* The users table *)

Roles == {"system_admin", "normal_user", "store_owner"}
UserIds == {1, 2}
NoUser == [id |-> 0, name |-> "", email |-> "", role |-> "none",
           is_active |-> FALSE]

InitUsers ==
  (1 :> [name |-> "Admin", email |-> "admin@example.com",
         role |-> "system_admin", is_active |-> TRUE]) @@
  (2 :> [name |-> "Test User", email |-> "test@example.com",
         role |-> "normal_user", is_active |-> TRUE])

findByIdAnyStatus(id) ==
  IF id \in DOMAIN users
  THEN [id |-> id, name |-> users[id].name, email |-> users[id].email,
        role |-> users[id].role, is_active |-> users[id].is_active]
  ELSE NoUser

\* User.findById: SELECT * FROM users WHERE id = $1 AND is_active = true
findById(id) ==
  IF id \in DOMAIN users /\ users[id].is_active
  THEN [id |-> id, name |-> users[id].name, email |-> users[id].email,
        role |-> users[id].role, is_active |-> users[id].is_active]
  ELSE NoUser

\* User.findByEmail: the same filter on is_active
findByEmail(id) ==
  IF id \in DOMAIN users /\ users[id].is_active
  THEN [id |-> id, name |-> users[id].name, email |-> users[id].email,
        role |-> users[id].role, is_active |-> users[id].is_active]
  ELSE NoUser

\* what the table holds for id, whatever the query filters
AccountState(id) ==
  IF id \notin DOMAIN users THEN "absent"
  ELSE IF users[id].is_active THEN "active" ELSE "inactive"

----------------------------------------------------------------------------
(* Tokens *)

Garbage == [garbage |-> TRUE]

\* a field that the request does not have
Absent == [absent |-> TRUE]

\* type "none" and tokenId 0: the claim is not in the token; extra: the
\* names of the other fields of the signed payload
IsJwt(t) ==
  DOMAIN t = {"type", "userId", "email", "role", "name", "tokenId", "extra",
              "iat", "exp", "key"}

\* a payload object: the four identity fields, its other fields, and type
\* and tokenId when it has them
Payload(userId, email, role, name, extra) ==
  [userId |-> userId, email |-> email, role |-> role, name |-> name,
   extra |-> extra, type |-> "none", tokenId |-> 0]

\* the payload the controllers build from a users row
PayloadOf(user) == Payload(user.id, user.email, user.role, user.name, {})

\* the token string of the given claims, signed at time iat
TokenAt(payload, secret, ttl, iat) ==
  [type |-> payload.type, userId |-> payload.userId, email |-> payload.email,
   role |-> payload.role, name |-> payload.name, tokenId |-> payload.tokenId,
   extra |-> payload.extra, iat |-> iat, exp |-> iat + ttl, key |-> secret]

\* jwt.sign(payload, secret, {expiresIn, issuer, audience})
Sign(payload, secret, ttl) == TokenAt(payload, secret, ttl, now)

JwtVerifyLate(t, secret) ==
  IF ~IsJwt(t) THEN "JsonWebTokenError"
  ELSE IF t.key # secret THEN "JsonWebTokenError"
  ELSE IF now > t.exp THEN "TokenExpiredError"
  ELSE "ok"

\* jwt.verify(token, secret, {issuer, audience}): the error name, or "ok"
JwtVerify(t, secret) ==
  IF ~IsJwt(t) THEN "JsonWebTokenError"
  ELSE IF t.key # secret THEN "JsonWebTokenError"
  ELSE IF now >= t.exp THEN "TokenExpiredError"
  ELSE "ok"

\* what jwt.verify returns for a token it accepts: the claims
DecodedPayload(t) == [f \in DOMAIN t \ {"key"} |-> t[f]]

generateToken(payload) == Sign(payload, JWT_SECRET, JWT_EXPIRE)

verifyTokenDecodeOnly(t) ==
  IF ~IsJwt(t) THEN "JsonWebTokenError"
  ELSE IF now >= t.exp THEN "TokenExpiredError"
  ELSE "ok"

verifyToken(t) == JwtVerify(t, JWT_SECRET)

generateRefreshTokenAccessKey(payload, uuid) ==
  [token |-> Sign([payload EXCEPT !.tokenId = uuid, !.type = "refresh"],
                  JWT_SECRET, JWT_REFRESH_EXPIRE),
   tokenId |-> uuid]

\* enhancedPayload = {...payload, tokenId, type: 'refresh'}; returns
\* {token, tokenId}
generateRefreshToken(payload, uuid) ==
  [token |-> Sign([payload EXCEPT !.tokenId = uuid, !.type = "refresh"],
                  JWT_REFRESH_SECRET, JWT_REFRESH_EXPIRE),
   tokenId |-> uuid]

verifyRefreshToken(t) ==
  LET r == JwtVerify(t, JWT_REFRESH_SECRET) IN
  IF r # "ok" THEN r
  ELSE IF t.type # "refresh" THEN "Error"
  ELSE "ok"

generateTokenPairRaw(payload, uuid) ==
  [accessToken |-> generateToken(payload),
   refreshToken |-> generateRefreshToken(payload, uuid).token]

generateTokenPair(payload, uuid) ==
  LET cleanPayload == Payload(payload.userId, payload.email, payload.role,
                              payload.name, {}) IN
  [accessToken |-> generateToken(cleanPayload),
   refreshToken |-> generateRefreshToken(cleanPayload, uuid).token]

isTokenBlacklisted(t) == t \in tokenBlacklist

\* blacklistToken(token, type): the blacklist and the timers after the call
blacklistOkUnverified(t, type) == TRUE

blacklistOk(t, type) ==
  (IF type = "refresh" THEN verifyRefreshToken(t) ELSE verifyToken(t)) = "ok"

blacklistAdd(bl, t, type) == IF blacklistOk(t, type) THEN bl \cup {t} ELSE bl

\* setTimeout(() => tokenBlacklist.delete(token), expiry - Date.now()): the
\* time at which the callback is due
TimeoutAt(delay) == IF delay > TIMEOUT_MAX \/ delay < 1 THEN now ELSE now + delay

\* decoded.exp * 1000; undefined gives NaN, which setTimeout takes as 1 ms
ExpiryOf(t) == IF IsJwt(t) THEN t.exp ELSE now

timersAdd(tm, t, type) ==
  IF blacklistOk(t, type)
  THEN tm \cup {[token |-> t, at |-> TimeoutAt(ExpiryOf(t) - now)]}
  ELSE tm

\* isTokenExpired / getTokenExpiry: new Date(exp * 1000) < new Date()
isTokenExpired(t) == IF IsJwt(t) THEN t.exp < now ELSE TRUE

----------------------------------------------------------------------------
(* The Authorization header: absent, or a string.  A string is a sequence *)
(* of pieces; a piece is a space, a word without spaces, or a token.      *)

Space == [ch |-> " "]
Word(w) == [word |-> w]
NoHeader == [present |-> FALSE, str |-> <<>>]
Header(s) == [present |-> TRUE, str |-> s]
Bearer(t) == Header(<<Word("Bearer"), Space, t>>)
Null == [null |-> TRUE, str |-> <<>>]

\* String.prototype.split(' ')
RECURSIVE SplitFrom(_, _, _)
SplitFrom(s, i, cur) ==
  IF i > Len(s) THEN <<cur>>
  ELSE IF s[i] = Space THEN <<cur>> \o SplitFrom(s, i + 1, <<>>)
  ELSE SplitFrom(s, i + 1, Append(cur, s[i]))

split(s) == SplitFrom(s, 1, <<>>)

extractTokenAnyScheme(authHeader) ==
  IF ~authHeader.present \/ authHeader.str = <<>> THEN Null
  ELSE LET parts == split(authHeader.str) IN
       IF Len(parts) # 2 THEN Null
       ELSE [null |-> FALSE, str |-> parts[2]]

extractToken(authHeader) ==
  IF ~authHeader.present \/ authHeader.str = <<>> THEN Null
  ELSE LET parts == split(authHeader.str) IN
       IF Len(parts) # 2 \/ parts[1] # <<Word("Bearer")>> THEN Null
       ELSE [null |-> FALSE, str |-> parts[2]]

\* JavaScript truthiness of extractToken's result: null and '' are falsy
Falsy(tok) == tok.null \/ tok.str = <<>>

\* the token a string denotes: a string that is not one whole token is malformed
TokenOf(str) == IF Len(str) = 1 THEN str[1] ELSE Garbage

----------------------------------------------------------------------------
(* Responses *)

NoReqUser == [id |-> 0, role |-> "none"]
NoPair == [accessToken |-> Garbage, refreshToken |-> Garbage]

\* the outcome of a request: the response sent (status 0: none), the number
\* of next() calls, req.user, and what the handler did on the way; at: the
\* time of the request; acct and dirRole: what the users table held for the
\* token's userId; body: the refreshToken of the request body; pair: the
\* tokens of the response
Outcome(op, hdr, status, error, nexts, user, sigChecked, lookedUp) ==
  [op |-> op, hdr |-> hdr, status |-> status, error |-> error, nexts |-> nexts,
   user |-> user, sigChecked |-> sigChecked, lookedUp |-> lookedUp,
   token |-> TokenOf(extractToken(hdr).str),
   blacklisted |-> isTokenBlacklisted(TokenOf(extractToken(hdr).str)),
   acct |-> IF IsJwt(TokenOf(extractToken(hdr).str))
            THEN AccountState(TokenOf(extractToken(hdr).str).userId)
            ELSE "absent",
   dirRole |-> IF IsJwt(TokenOf(extractToken(hdr).str))
                  /\ TokenOf(extractToken(hdr).str).userId \in DOMAIN users
               THEN users[TokenOf(extractToken(hdr).str).userId].role
               ELSE "none",
   at |-> now, body |-> Absent, dbFails |-> FALSE, conc |-> FALSE,
   pair |-> [accessToken |-> Garbage, refreshToken |-> Garbage]]

\* the request context: headers.authorization, user, params.userId
NoRequest == [hdr |-> NoHeader, user |-> NoReqUser, userId |-> <<>>]

NoOutcome == Outcome("none", NoHeader, 0, "", 0, NoReqUser, FALSE, FALSE)

authenticateTokenClaims(hdr, dbFails) ==
  LET token == extractToken(hdr) IN
  IF Falsy(token)
  THEN Outcome("auth", hdr, 401, "MISSING_TOKEN", 0, NoReqUser, FALSE, FALSE)
  ELSE
    LET decoded == TokenOf(token.str)
        v == verifyToken(decoded) IN
    IF v = "JsonWebTokenError"
    THEN Outcome("auth", hdr, 401, "INVALID_TOKEN", 0, NoReqUser, TRUE, FALSE)
    ELSE IF v = "TokenExpiredError"
    THEN Outcome("auth", hdr, 401, "TOKEN_EXPIRED", 0, NoReqUser, TRUE, FALSE)
    ELSE IF dbFails
    THEN Outcome("auth", hdr, 500, "INTERNAL_ERROR", 0, NoReqUser, TRUE, TRUE)
    ELSE
      LET user == findById(decoded.userId) IN
      IF user = NoUser
      THEN Outcome("auth", hdr, 401, "USER_NOT_FOUND", 0, NoReqUser, TRUE, TRUE)
      ELSE IF ~user.is_active
      THEN Outcome("auth", hdr, 401, "ACCOUNT_INACTIVE", 0, NoReqUser, TRUE, TRUE)
      ELSE Outcome("auth", hdr, 0, "", 1,
                   [id |-> decoded.userId, role |-> decoded.role], TRUE, TRUE)

\* authenticateToken(req, res, next); dbFails: the query of User.findById rejects
authenticateToken(hdr, dbFails) ==
  LET token == extractToken(hdr) IN
  IF Falsy(token)
  THEN Outcome("auth", hdr, 401, "MISSING_TOKEN", 0, NoReqUser, FALSE, FALSE)
  ELSE
    LET decoded == TokenOf(token.str)
        v == verifyToken(decoded) IN
    IF v = "JsonWebTokenError"
    THEN Outcome("auth", hdr, 401, "INVALID_TOKEN", 0, NoReqUser, TRUE, FALSE)
    ELSE IF v = "TokenExpiredError"
    THEN Outcome("auth", hdr, 401, "TOKEN_EXPIRED", 0, NoReqUser, TRUE, FALSE)
    ELSE IF dbFails
    THEN Outcome("auth", hdr, 500, "INTERNAL_ERROR", 0, NoReqUser, TRUE, TRUE)
    ELSE
      LET user == findById(decoded.userId) IN
      IF user = NoUser
      THEN Outcome("auth", hdr, 401, "USER_NOT_FOUND", 0, NoReqUser, TRUE, TRUE)
      ELSE IF ~user.is_active
      THEN Outcome("auth", hdr, 401, "ACCOUNT_INACTIVE", 0, NoReqUser, TRUE, TRUE)
      ELSE Outcome("auth", hdr, 0, "", 1,
                   [id |-> user.id, role |-> user.role], TRUE, TRUE)

optionalAuthStrict(hdr, dbFails) ==
  LET a == authenticateToken(hdr, dbFails) IN
  IF a.error \in {"INVALID_TOKEN", "TOKEN_EXPIRED"}
  THEN [a EXCEPT !.op = "optional"]
  ELSE IF a.nexts = 1 THEN [a EXCEPT !.op = "optional"]
  ELSE Outcome("optional", hdr, 0, "", 1, NoReqUser, a.sigChecked, a.lookedUp)

\* optionalAuth(req, res, next)
optionalAuth(hdr, dbFails) ==
  LET token == extractToken(hdr) IN
  IF Falsy(token)
  THEN Outcome("optional", hdr, 0, "", 1, NoReqUser, FALSE, FALSE)
  ELSE
    LET decoded == TokenOf(token.str)
        v == verifyToken(decoded) IN
    IF v # "ok"
    THEN Outcome("optional", hdr, 0, "", 1, NoReqUser, TRUE, FALSE)
    ELSE IF dbFails
    THEN Outcome("optional", hdr, 0, "", 1, NoReqUser, TRUE, TRUE)
    ELSE
      LET user == findById(decoded.userId) IN
      IF user # NoUser /\ user.is_active
      THEN Outcome("optional", hdr, 0, "", 1,
                   [id |-> user.id, role |-> user.role], TRUE, TRUE)
      ELSE Outcome("optional", hdr, 0, "", 1, NoReqUser, TRUE, TRUE)

----------------------------------------------------------------------------
(* What clients can send *)

\* a well-formed token signed with a secret of the client's own
ForgedToken ==
  TokenAt(Payload(1, "admin@example.com", "system_admin", "Admin", {}),
          7, MaxTime + 1, 0)

\* token strings a client can put into a request
Presentable == issued \cup {Garbage, ForgedToken}

\* headers of well-behaved and of forging clients
ClientHeaders == {NoHeader} \cup {Bearer(t) : t \in Presentable}

----------------------------------------------------------------------------
(* utils/jwtHelpers.js: tokens signed with JWT_SECRET from any payload and *)
(* with any lifetime                                                      *)

\* expiresIn: '-1s' of generateExpiredToken and a positive lifetime
TestLifetimes == {-1, 1}

\* generateMockUser(overrides): the mock user (userId 1, normal_user), also
\* under an id that the users table does not hold
TestPayloads ==
  {Payload(id, "test@example.com", "normal_user", "Test User", {}) :
     id \in {1, 3}}

generateTestToken(payload, expiresIn) == Sign(payload, JWT_SECRET, expiresIn)

generateExpiredToken(payload) == generateTestToken(payload, -1)

GenerateTestToken(payload, expiresIn) ==
  /\ module = "loaded"
  /\ issued' = issued \cup
       {IF expiresIn = -1 THEN generateExpiredToken(payload)
        ELSE generateTestToken(payload, expiresIn)}
  /\ UNCHANGED <<ratings, env, module, warned, now, users, tokenBlacklist, timers,
                 nextId, reqs, rotationLog, req, last>>

----------------------------------------------------------------------------
(* Module loading: jwt.js lines 5-20 *)

LoadModuleNoCheck ==
  /\ module = "unloaded"
  /\ module' = "loaded"
  /\ warned' = (JWT_SECRET < MinSecretLen)
  /\ UNCHANGED <<ratings, env, now, users, tokenBlacklist, timers, nextId, issued,
                 reqs, rotationLog, req, last>>

LoadModule ==
  /\ module = "unloaded"
  /\ IF JWT_SECRET = 0
     THEN module' = "failed" /\ warned' = FALSE
     ELSE module' = "loaded" /\ warned' = (JWT_SECRET < MinSecretLen)
  /\ UNCHANGED <<ratings, env, now, users, tokenBlacklist, timers, nextId, issued,
                 reqs, rotationLog, req, last>>

----------------------------------------------------------------------------
(* POST /api/auth/login *)

\* id stands for the email of the request body
LoginOutcome(id, status, error) ==
  [NoOutcome EXCEPT !.op = "login", !.status = status, !.error = error,
                    !.acct = AccountState(id), !.at = now]

Login(id, passwordValid) ==
  /\ module = "loaded"
  /\ LET user == findByEmail(id) IN
     IF user = NoUser \/ ~passwordValid
     THEN /\ last' = LoginOutcome(id, 401, "INVALID_CREDENTIALS")
          /\ UNCHANGED <<nextId, issued>>
     ELSE IF ~user.is_active
     THEN /\ last' = LoginOutcome(id, 401, "ACCOUNT_INACTIVE")
          /\ UNCHANGED <<nextId, issued>>
     ELSE /\ nextId < MaxIds
          /\ LET tokens == generateTokenPair(
                             PayloadOf(user),
                             nextId + 1) IN
             /\ issued' = issued \cup {tokens.accessToken, tokens.refreshToken}
             /\ last' = [LoginOutcome(id, 200, "") EXCEPT
                           !.token = tokens.refreshToken, !.pair = tokens]
          /\ nextId' = nextId + 1
  /\ UNCHANGED <<ratings, env, module, warned, now, users, tokenBlacklist, timers,
                 reqs, rotationLog, req>>

----------------------------------------------------------------------------
(* A route guarded by authenticateToken *)

AuthenticateUncaught(hdr, dbFails) ==
  /\ module = "loaded"
  /\ last' = IF dbFails /\ authenticateToken(hdr, dbFails).status = 500
             THEN [Outcome("auth", hdr, 0, "", 0, NoReqUser, TRUE, TRUE)
                     EXCEPT !.dbFails = dbFails]
             ELSE [authenticateToken(hdr, dbFails) EXCEPT !.dbFails = dbFails]
  /\ UNCHANGED <<ratings, env, module, warned, now, users, tokenBlacklist, timers,
                 nextId, issued, reqs, rotationLog, req>>

Authenticate(hdr, dbFails) ==
  /\ module = "loaded"
  /\ last' = [authenticateToken(hdr, dbFails) EXCEPT !.dbFails = dbFails]
  /\ UNCHANGED <<ratings, env, module, warned, now, users, tokenBlacklist, timers,
                 nextId, issued, reqs, rotationLog, req>>

OptionalAuth(hdr, dbFails) ==
  /\ module = "loaded"
  /\ last' = [optionalAuth(hdr, dbFails) EXCEPT !.dbFails = dbFails]
  /\ UNCHANGED <<ratings, env, module, warned, now, users, tokenBlacklist, timers,
                 nextId, issued, reqs, rotationLog, req>>

----------------------------------------------------------------------------
(* POST /api/auth/logout: authenticateToken, then authController.logout *)

LogoutAccessOnly(hdr, body, dbFails) ==
  /\ module = "loaded"
  /\ LET a == authenticateToken(hdr, dbFails) IN
     IF a.nexts = 0
     THEN /\ last' = [a EXCEPT !.op = "logout", !.body = body]
          /\ UNCHANGED <<tokenBlacklist, timers>>
     ELSE
       LET accessToken == TokenOf(extractToken(hdr).str)
           bl1 == blacklistAdd(tokenBlacklist, accessToken, "access")
           tm1 == timersAdd(timers, accessToken, "access") IN
       /\ tokenBlacklist' = bl1
       /\ timers' = tm1
       /\ last' = [a EXCEPT !.op = "logout", !.status = 200, !.nexts = 1,
                             !.body = body]
  /\ UNCHANGED <<ratings, env, module, warned, now, users, nextId, issued, reqs,
                 rotationLog, req>>

Logout(hdr, body, dbFails) ==
  /\ module = "loaded"
  /\ LET a == authenticateToken(hdr, dbFails) IN
     IF a.nexts = 0
     THEN /\ last' = [a EXCEPT !.op = "logout", !.body = body]
          /\ UNCHANGED <<tokenBlacklist, timers>>
     ELSE
       LET accessToken == TokenOf(extractToken(hdr).str)
           bl1 == blacklistAdd(tokenBlacklist, accessToken, "access")
           tm1 == timersAdd(timers, accessToken, "access") IN
       /\ tokenBlacklist' = IF body = Absent THEN bl1
                            ELSE blacklistAdd(bl1, body, "refresh")
       /\ timers' = IF body = Absent THEN tm1
                    ELSE timersAdd(tm1, body, "refresh")
       /\ last' = [a EXCEPT !.op = "logout", !.status = 200, !.nexts = 1,
                             !.body = body]
  /\ UNCHANGED <<ratings, env, module, warned, now, users, nextId, issued, reqs,
                 rotationLog, req>>

----------------------------------------------------------------------------
(* POST /api/auth/refresh: authController.refreshToken.  The handler runs  *)
(* up to "await User.findById", other requests run, then it resumes.       *)

Slots == {1, 2}

\* conc: another request carrying the same token was answered with a new
\* pair while this one was waiting at the await
IdleReq == [pc |-> "idle", token |-> Absent, user |-> NoUser, conc |-> FALSE]

RefreshOutcome(token, status, error, conc) ==
  [NoOutcome EXCEPT !.op = "refresh", !.token = token, !.status = status,
                    !.error = error, !.conc = conc,
                    !.blacklisted = isTokenBlacklisted(token), !.at = now]

RefreshBeginRevoking(i, token, dbFails) ==
  /\ module = "loaded"
  /\ reqs[i].pc = "idle"
  /\ LET v == verifyRefreshToken(token) IN
     IF token = Absent
     THEN /\ last' = RefreshOutcome(token, 400, "MISSING_REFRESH_TOKEN", FALSE)
          /\ UNCHANGED <<reqs, tokenBlacklist>>
     ELSE IF v \in {"JsonWebTokenError", "TokenExpiredError"}
     THEN /\ last' = RefreshOutcome(token, 401, "INVALID_REFRESH_TOKEN", FALSE)
          /\ tokenBlacklist' = tokenBlacklist \cup {token}
          /\ UNCHANGED reqs
     ELSE IF v # "ok" \/ dbFails
     THEN /\ last' = RefreshOutcome(token, 500, "INTERNAL_ERROR", FALSE)
          /\ UNCHANGED <<reqs, tokenBlacklist>>
     ELSE /\ reqs' = [reqs EXCEPT ![i] =
                        [pc |-> "await", token |-> token,
                         user |-> findById(token.userId), conc |-> FALSE]]
          /\ UNCHANGED <<last, tokenBlacklist>>
  /\ UNCHANGED <<ratings, env, module, warned, now, users, timers,
                 nextId, issued, rotationLog, req>>

\* lines 286-300: up to the await
RefreshBegin(i, token, dbFails) ==
  /\ module = "loaded"
  /\ reqs[i].pc = "idle"
  /\ LET v == verifyRefreshToken(token) IN
     IF token = Absent
     THEN /\ last' = RefreshOutcome(token, 400, "MISSING_REFRESH_TOKEN", FALSE)
          /\ UNCHANGED reqs
     ELSE IF v \in {"JsonWebTokenError", "TokenExpiredError"}
     THEN /\ last' = RefreshOutcome(token, 401, "INVALID_REFRESH_TOKEN", FALSE)
          /\ UNCHANGED reqs
     ELSE IF v # "ok" \/ dbFails
     THEN /\ last' = RefreshOutcome(token, 500, "INTERNAL_ERROR", FALSE)
          /\ UNCHANGED reqs
     ELSE /\ reqs' = [reqs EXCEPT ![i] =
                        [pc |-> "await", token |-> token,
                         user |-> findById(token.userId), conc |-> FALSE]]
          /\ UNCHANGED last
  /\ UNCHANGED <<ratings, env, module, warned, now, users, tokenBlacklist, timers,
                 nextId, issued, rotationLog, req>>

RefreshFinishSameId(i) ==
  /\ reqs[i].pc = "await"
  /\ LET r == reqs[i]
         user == r.user IN
     IF user = NoUser \/ ~user.is_active
     THEN /\ last' = RefreshOutcome(r.token, 401, "INVALID_REFRESH_TOKEN", r.conc)
          /\ reqs' = [reqs EXCEPT ![i] = IdleReq]
          /\ UNCHANGED <<tokenBlacklist, timers, nextId, issued, rotationLog>>
     ELSE /\ nextId < MaxIds
          /\ tokenBlacklist' = blacklistAdd(tokenBlacklist, r.token, "refresh")
          /\ timers' = timersAdd(timers, r.token, "refresh")
          /\ LET tokens == generateTokenPair(
                             PayloadOf(user),
                             r.token.tokenId) IN
             /\ issued' = issued \cup {tokens.accessToken, tokens.refreshToken}
             /\ last' = [RefreshOutcome(r.token, 200, "", r.conc)
                           EXCEPT !.pair = tokens]
          /\ reqs' = [j \in Slots |->
                        IF j = i THEN IdleReq
                        ELSE IF reqs[j].pc = "await" /\ reqs[j].token = r.token
                        THEN [reqs[j] EXCEPT !.conc = TRUE]
                        ELSE reqs[j]]
          /\ nextId' = nextId + 1
          /\ rotationLog' = Append(rotationLog, r.token)
  /\ UNCHANGED <<ratings, env, module, warned, now, users, req>>

\* lines 301-337: after the await
RefreshFinish(i) ==
  /\ reqs[i].pc = "await"
  /\ LET r == reqs[i]
         user == r.user IN
     IF user = NoUser \/ ~user.is_active
     THEN /\ last' = RefreshOutcome(r.token, 401, "INVALID_REFRESH_TOKEN", r.conc)
          /\ reqs' = [reqs EXCEPT ![i] = IdleReq]
          /\ UNCHANGED <<tokenBlacklist, timers, nextId, issued, rotationLog>>
     ELSE /\ nextId < MaxIds
          /\ tokenBlacklist' = blacklistAdd(tokenBlacklist, r.token, "refresh")
          /\ timers' = timersAdd(timers, r.token, "refresh")
          /\ LET tokens == generateTokenPair(
                             PayloadOf(user),
                             nextId + 1) IN
             /\ issued' = issued \cup {tokens.accessToken, tokens.refreshToken}
             /\ last' = [RefreshOutcome(r.token, 200, "", r.conc)
                           EXCEPT !.pair = tokens]
          /\ reqs' = [j \in Slots |->
                        IF j = i THEN IdleReq
                        ELSE IF reqs[j].pc = "await" /\ reqs[j].token = r.token
                        THEN [reqs[j] EXCEPT !.conc = TRUE]
                        ELSE reqs[j]]
          /\ nextId' = nextId + 1
          /\ rotationLog' = Append(rotationLog, r.token)
  /\ UNCHANGED <<ratings, env, module, warned, now, users, req>>

----------------------------------------------------------------------------
(* Time, timers and the directory *)

Tick ==
  /\ module = "loaded"
  /\ now < MaxTime
  /\ now' = now + 1
  /\ UNCHANGED <<ratings, env, module, warned, users, tokenBlacklist, timers, nextId,
                 issued, reqs, rotationLog, req, last>>

\* the setTimeout callback of blacklistToken (jwt.js lines 127-129)
TimerFire(tm) ==
  /\ tm \in timers
  /\ now >= tm.at
  /\ tokenBlacklist' = tokenBlacklist \ {tm.token}
  /\ timers' = timers \ {tm}
  /\ UNCHANGED <<ratings, env, module, warned, now, users, nextId, issued,
                 reqs, rotationLog, req, last>>

\* what a sweep did: the blacklist before and after it
SweepOutcome(before, after) ==
  [op |-> "sweep", at |-> now, before |-> before, after |-> after]

cleanBlacklistAll ==
  /\ module = "loaded"
  /\ tokenBlacklist' = {}
  /\ last' = SweepOutcome(tokenBlacklist, tokenBlacklist')
  /\ UNCHANGED <<ratings, env, module, warned, now, users, timers, nextId, issued,
                 reqs, rotationLog, req>>

\* setInterval(cleanBlacklist, 3600000)
cleanBlacklist ==
  /\ module = "loaded"
  /\ tokenBlacklist' = {t \in tokenBlacklist : ~isTokenExpired(t)}
  /\ last' = SweepOutcome(tokenBlacklist, tokenBlacklist')
  /\ UNCHANGED <<ratings, env, module, warned, now, users, timers, nextId, issued,
                 reqs, rotationLog, req>>

\* User.updateStatus(id, is_active)
updateStatus(id, is_active) ==
  /\ module = "loaded"
  /\ id \in DOMAIN users
  /\ users' = [users EXCEPT ![id].is_active = is_active]
  /\ UNCHANGED <<ratings, env, module, warned, now, tokenBlacklist, timers, nextId,
                 issued, reqs, rotationLog, req, last>>

----------------------------------------------------------------------------
(* The token lifecycle *)

Init ==
  /\ env \in Environments
  /\ module = "unloaded"
  /\ warned = FALSE
  /\ now = 0
  /\ users = InitUsers
  /\ tokenBlacklist = {}
  /\ timers = {}
  /\ nextId = 0
  /\ issued = {}
  /\ reqs = [i \in Slots |-> IdleReq]
  /\ rotationLog = <<>>
  /\ ratings = {}
  /\ req = NoRequest
  /\ last = NoOutcome

\* refresh tokens a client holds
RefreshTokens == {t \in issued : t.type = "refresh"}

Next ==
  \/ LoadModule
  \/ \E id \in UserIds, pw \in BOOLEAN : Login(id, pw)
  \/ \E hdr \in ClientHeaders, f \in BOOLEAN : Authenticate(hdr, f)
  \/ \E hdr \in ClientHeaders, f \in BOOLEAN : OptionalAuth(hdr, f)
  \/ \E hdr \in ClientHeaders, body \in Presentable \cup {Absent}, f \in BOOLEAN :
       Logout(hdr, body, f)
  \/ \E i \in Slots, t \in Presentable \cup {Absent}, f \in BOOLEAN :
       RefreshBegin(i, t, f)
  \/ \E i \in Slots : RefreshFinish(i)
  \/ Tick
  \/ \E tm \in timers : TimerFire(tm)
  \/ cleanBlacklist
  \/ \E id \in UserIds, b \in BOOLEAN : updateStatus(id, b)

Spec == Init /\ [][Next]_vars

----------------------------------------------------------------------------
(* Sessions: login, authenticated requests, logout and deactivation *)

SessionNext ==
  \/ LoadModule
  \/ \E id \in UserIds, pw \in BOOLEAN : nextId < MaxSessions /\ Login(id, pw)
  \/ \E hdr \in ClientHeaders, f \in BOOLEAN : Authenticate(hdr, f)
  \/ \E hdr \in ClientHeaders, body \in RefreshTokens \cup {Absent} :
       Logout(hdr, body, FALSE)
  \/ Tick
  \/ \E id \in UserIds, b \in BOOLEAN : updateStatus(id, b)

SpecSession == Init /\ [][SessionNext]_vars

----------------------------------------------------------------------------
(* Rotation: login and concurrent refresh requests *)

RotationNext ==
  \/ LoadModule
  \/ \E id \in UserIds, pw \in BOOLEAN : Login(id, pw)
  \/ \E i \in Slots, t \in Presentable \cup {Absent}, f \in BOOLEAN :
       RefreshBegin(i, t, f)
  \/ \E i \in Slots : RefreshFinish(i)
  \/ Tick

SpecRotation == Init /\ [][RotationNext]_vars

----------------------------------------------------------------------------
(* Configuration: the loader and every path that signs a token, with one  *)
(* refresh request at a time                                              *)

ConfigNext ==
  \/ LoadModule
  \/ \E id \in UserIds, pw \in BOOLEAN : Login(id, pw)
  \/ \E t \in Presentable \cup {Absent}, f \in BOOLEAN : RefreshBegin(1, t, f)
  \/ RefreshFinish(1)
  \/ Tick

SpecConfig == Init /\ [][ConfigNext]_vars

----------------------------------------------------------------------------
(* Header parsing: authenticateToken and optionalAuth on a request with   *)
(* any Authorization header, in a process that has issued one pair to     *)
(* user 2 at time 0                                                       *)

HeaderPayload == Payload(2, "test@example.com", "normal_user", "Test User", {})

HeaderAccess == TokenAt(HeaderPayload, JWT_SECRET, JWT_EXPIRE, 0)

HeaderRefresh ==
  TokenAt([HeaderPayload EXCEPT !.type = "refresh", !.tokenId = 1],
          JWT_REFRESH_SECRET, JWT_REFRESH_EXPIRE, 0)

Pieces ==
  {Space, Word("Bearer"), Word("bearer"), Word("Token"), Word("abc"),
   HeaderAccess, HeaderRefresh}

Strings == UNION {[1..n -> Pieces] : n \in 0..MaxHdrLen}

AllHeaders == {NoHeader} \cup {Header(str) : str \in Strings}

HeaderInit ==
  /\ env \in {e \in Environments : e.JWT_SECRET # 0}
  /\ module = "loaded"
  /\ warned = (JWT_SECRET < MinSecretLen)
  /\ now \in 0..MaxTime
  /\ \E a \in BOOLEAN : users = [InitUsers EXCEPT ![2].is_active = a]
  /\ tokenBlacklist = {}
  /\ timers = {}
  /\ nextId = 1
  /\ issued = {HeaderAccess, HeaderRefresh}
  /\ reqs = [i \in Slots |-> IdleReq]
  /\ rotationLog = <<>>
  /\ ratings = {}
  /\ \E hdr \in AllHeaders : req = [NoRequest EXCEPT !.hdr = hdr]
  /\ last = NoOutcome

HeaderNext ==
  \/ \E f \in BOOLEAN : Authenticate(req.hdr, f)
  \/ \E f \in BOOLEAN : OptionalAuth(req.hdr, f)

SpecHeader == HeaderInit /\ [][HeaderNext]_vars

----------------------------------------------------------------------------
(* Access policy: requireRole and requireOwnershipOrAdmin *)

Digits == <<"0", "1", "2">>
DigitValue(c) == CHOOSE v \in 0..2 : Digits[v + 1] = c
IsDigit(c) == \E v \in 0..2 : Digits[v + 1] = c
NaN == [nan |-> TRUE, val |-> 0]

\* the value of the longest prefix of digits of s from position i on
RECURSIVE ParseDigits(_, _, _, _, _)
ParseDigits(s, i, radix, acc, seen) ==
  IF i > Len(s) \/ ~IsDigit(s[i])
  THEN IF seen THEN [nan |-> FALSE, val |-> acc] ELSE NaN
  ELSE ParseDigits(s, i + 1, radix, acc * radix + DigitValue(s[i]), TRUE)

\* parseInt(string): optional sign, optional 0x prefix, leading digits
parseInt(s) ==
  LET neg == Len(s) >= 1 /\ s[1] = "-"
      i == IF neg THEN 2 ELSE 1
      hex == Len(s) >= i + 1 /\ s[i] = "0" /\ s[i + 1] = "x"
      r == IF hex THEN ParseDigits(s, i + 2, 16, 0, FALSE)
           ELSE ParseDigits(s, i, 10, 0, FALSE) IN
  IF r.nan THEN NaN
  ELSE [nan |-> FALSE, val |-> IF neg THEN 0 - r.val ELSE r.val]

PolicyOutcome(op, status, error, nexts, arg) ==
  [op |-> op, status |-> status, error |-> error, nexts |-> nexts,
   user |-> req.user, arg |-> arg]

\* Array.isArray(allowedRoles) ? allowedRoles : [allowedRoles]
RolesOf(allowedRoles) ==
  IF "array" \in DOMAIN allowedRoles THEN allowedRoles.array
  ELSE {allowedRoles.single}

requireRoleAdminBypass(allowedRoles) ==
  IF req.user = NoReqUser
  THEN PolicyOutcome("requireRole", 401, "NOT_AUTHENTICATED", 0, allowedRoles)
  ELSE IF req.user.role \notin RolesOf(allowedRoles) \cup {"system_admin"}
  THEN PolicyOutcome("requireRole", 403, "INSUFFICIENT_PERMISSIONS", 0,
                     allowedRoles)
  ELSE PolicyOutcome("requireRole", 0, "", 1, allowedRoles)

requireRole(allowedRoles) ==
  IF req.user = NoReqUser
  THEN PolicyOutcome("requireRole", 401, "NOT_AUTHENTICATED", 0, allowedRoles)
  ELSE IF req.user.role \notin RolesOf(allowedRoles)
  THEN PolicyOutcome("requireRole", 403, "INSUFFICIENT_PERMISSIONS", 0,
                     allowedRoles)
  ELSE PolicyOutcome("requireRole", 0, "", 1, allowedRoles)

requireOwnershipOnly ==
  IF req.user = NoReqUser
  THEN PolicyOutcome("requireOwnershipOrAdmin", 401, "NOT_AUTHENTICATED", 0,
                     req.userId)
  ELSE
    LET targetUserId == parseInt(req.userId) IN
    IF ~targetUserId.nan /\ req.user.id = targetUserId.val
    THEN PolicyOutcome("requireOwnershipOrAdmin", 0, "", 1, req.userId)
    ELSE PolicyOutcome("requireOwnershipOrAdmin", 403,
                       "INSUFFICIENT_PERMISSIONS", 0, req.userId)

requireOwnershipOrAdmin ==
  IF req.user = NoReqUser
  THEN PolicyOutcome("requireOwnershipOrAdmin", 401, "NOT_AUTHENTICATED", 0,
                     req.userId)
  ELSE
    LET targetUserId == parseInt(req.userId)
        currentUserId == req.user.id
        isAdmin == req.user.role = "system_admin" IN
    IF isAdmin \/ (~targetUserId.nan /\ currentUserId = targetUserId.val)
    THEN PolicyOutcome("requireOwnershipOrAdmin", 0, "", 1, req.userId)
    ELSE PolicyOutcome("requireOwnershipOrAdmin", 403,
                       "INSUFFICIENT_PERMISSIONS", 0, req.userId)

RequireRole(allowedRoles) ==
  /\ last' = requireRole(allowedRoles)
  /\ UNCHANGED <<ratings, env, module, warned, now, users, tokenBlacklist, timers,
                 nextId, issued, reqs, rotationLog, req>>

RequireOwnershipOrAdmin ==
  /\ last' = requireOwnershipOrAdmin
  /\ UNCHANGED <<ratings, env, module, warned, now, users, tokenBlacklist, timers,
                 nextId, issued, reqs, rotationLog, req>>

ParamChars == {"0", "1", "2", "x", "-"}
ParamStrings == UNION {[1..n -> ParamChars] : n \in 1..MaxParamLen}
PolicyIds == {1, 2, 12}

AllowedRoles ==
  {[single |-> r] : r \in Roles} \cup {[array |-> R] : R \in SUBSET Roles}

PolicyInit ==
  /\ env = [JWT_SECRET |-> 32, JWT_REFRESH_SECRET |-> 0, JWT_REFRESH_EXPIRE |-> 0]
  /\ module = "loaded"
  /\ warned = FALSE
  /\ now = 0
  /\ users = InitUsers
  /\ tokenBlacklist = {}
  /\ timers = {}
  /\ nextId = 0
  /\ issued = {}
  /\ reqs = [i \in Slots |-> IdleReq]
  /\ rotationLog = <<>>
  /\ ratings = {}
  /\ \E u \in {NoReqUser} \cup [id : PolicyIds, role : Roles],
        p \in ParamStrings :
       req = [hdr |-> NoHeader, user |-> u, userId |-> p]
  /\ last = NoOutcome

PolicyNext ==
  \/ \E allowedRoles \in AllowedRoles : RequireRole(allowedRoles)
  \/ RequireOwnershipOrAdmin

SpecPolicy == PolicyInit /\ [][PolicyNext]_vars

----------------------------------------------------------------------------
(* Revocation: logout with any request body, the removal timers and the   *)
(* hourly sweep                                                           *)

BlacklistNext ==
  \/ LoadModule
  \/ \E id \in UserIds, pw \in BOOLEAN : nextId < MaxSessions /\ Login(id, pw)
  \/ \E hdr \in ClientHeaders, body \in Presentable \cup {Absent} :
       Logout(hdr, body, FALSE)
  \/ Tick
  \/ \E tm \in timers : TimerFire(tm)
  \/ cleanBlacklist

SpecBlacklist == Init /\ [][BlacklistNext]_vars

----------------------------------------------------------------------------
(* The directory: authenticated requests with tokens of any payload and   *)
(* lifetime, logins with any email, deactivation                          *)

\* emails of login requests: those of the users table and an unknown one
LoginIds == UserIds \cup {3}

\* a process that has loaded jwt.js under the default configuration
DirectoryInit ==
  /\ env = [JWT_SECRET |-> 32, JWT_REFRESH_SECRET |-> 0, JWT_REFRESH_EXPIRE |-> 0]
  /\ module = "loaded"
  /\ warned = FALSE
  /\ now = 0
  /\ users = InitUsers
  /\ tokenBlacklist = {}
  /\ timers = {}
  /\ nextId = 0
  /\ issued = {}
  /\ reqs = [i \in Slots |-> IdleReq]
  /\ rotationLog = <<>>
  /\ ratings = {}
  /\ req = NoRequest
  /\ last = NoOutcome

DirectoryNext ==
  \/ \E id \in LoginIds, pw \in BOOLEAN : nextId < MaxSessions /\ Login(id, pw)
  \/ \E payload \in TestPayloads, expiresIn \in TestLifetimes :
       Cardinality(issued) < MaxTestTokens /\ GenerateTestToken(payload, expiresIn)
  \/ \E hdr \in ClientHeaders, f \in BOOLEAN : Authenticate(hdr, f)
  \/ Tick
  \/ \E id \in UserIds, b \in BOOLEAN : updateStatus(id, b)

SpecDirectory == DirectoryInit /\ [][DirectoryNext]_vars

----------------------------------------------------------------------------
(* The codec: the signing and verifying functions applied to any payload  *)

\* payload objects: the four identity fields and any other fields
CodecPayloads ==
  {Payload(userId, email, role, name, extra) :
     userId \in UserIds, email \in {"admin@example.com", "test@example.com"},
     role \in Roles, name \in {"Admin", "Test User"},
     extra \in SUBSET {"password_hash", "address"}}

\* the result of a codec call: the token or tokens made and what verifying
\* the token returned
CodecOutcome(op, payload, token, tokenId, result, pair) ==
  [op |-> op, payload |-> payload, token |-> token, tokenId |-> tokenId,
   result |-> result,
   decoded |-> IF result = "ok" THEN DecodedPayload(token) ELSE Absent,
   pair |-> pair, at |-> now]

\* verifyToken(generateToken(payload))
VerifyGenerated ==
  /\ LET token == generateToken(req.payload) IN
     last' = CodecOutcome("verifyToken", req.payload, token, 0,
                          verifyToken(token), NoPair)
  /\ UNCHANGED <<ratings, env, module, warned, now, users, tokenBlacklist, timers,
                 nextId, issued, reqs, rotationLog, req>>

\* verifyRefreshToken(generateRefreshToken(payload).token)
VerifyGeneratedRefresh(uuid) ==
  /\ LET r == generateRefreshToken(req.payload, uuid) IN
     last' = CodecOutcome("verifyRefreshToken", req.payload, r.token,
                          r.tokenId, verifyRefreshToken(r.token), NoPair)
  /\ UNCHANGED <<ratings, env, module, warned, now, users, tokenBlacklist, timers,
                 nextId, issued, reqs, rotationLog, req>>

\* generateTokenPair(payload)
GenerateTokenPair(uuid) ==
  /\ last' = CodecOutcome("generateTokenPair", req.payload, Garbage, uuid,
                          "none", generateTokenPair(req.payload, uuid))
  /\ UNCHANGED <<ratings, env, module, warned, now, users, tokenBlacklist, timers,
                 nextId, issued, reqs, rotationLog, req>>

CodecInit ==
  /\ env \in {e \in Environments : e.JWT_SECRET # 0}
  /\ module = "loaded"
  /\ warned = (JWT_SECRET < MinSecretLen)
  /\ now \in 0..MaxTime
  /\ users = InitUsers
  /\ tokenBlacklist = {}
  /\ timers = {}
  /\ nextId = 0
  /\ issued = {}
  /\ reqs = [i \in Slots |-> IdleReq]
  /\ rotationLog = <<>>
  /\ ratings = {}
  /\ \E payload \in CodecPayloads : req = [payload |-> payload]
  /\ last = NoOutcome

CodecNext ==
  \/ VerifyGenerated
  \/ \E uuid \in 1..MaxIds : VerifyGeneratedRefresh(uuid)
  \/ \E uuid \in 1..MaxIds : GenerateTokenPair(uuid)

SpecCodec == CodecInit /\ [][CodecNext]_vars

----------------------------------------------------------------------------
(* Access: every path that lets a request through or hands out tokens,    *)
(* with one session, one refresh request at a time and a users table that *)
(* answers every query                                                    *)

AccessNext ==
  \/ LoadModule
  \/ \E id \in UserIds, pw \in BOOLEAN : nextId < MaxSessions /\ Login(id, pw)
  \/ \E hdr \in ClientHeaders : Authenticate(hdr, FALSE)
  \/ \E hdr \in ClientHeaders : OptionalAuth(hdr, FALSE)
  \/ \E t \in Presentable \cup {Absent} : RefreshBegin(1, t, FALSE)
  \/ RefreshFinish(1)
  \/ Tick

SpecAccess == Init /\ [][AccessNext]_vars

----------------------------------------------------------------------------
(* Logout across sessions: one login more than MaxSessions, and logouts   *)
(* that carry any token a client holds, also one of an earlier session    *)

RevokeNext ==
  \/ \E id \in UserIds, pw \in BOOLEAN : nextId <= MaxSessions /\ Login(id, pw)
  \/ \E hdr \in ClientHeaders, body \in Presentable \cup {Absent} :
       Logout(hdr, body, FALSE)
  \/ Tick

SpecRevoke == DirectoryInit /\ [][RevokeNext]_vars

----------------------------------------------------------------------------
(* Refresh of one session, one request at a time, while accounts are      *)
(* deactivated and reactivated                                            *)

RefreshNext ==
  \/ \E id \in UserIds, pw \in BOOLEAN : nextId < MaxSessions /\ Login(id, pw)
  \/ \E t \in Presentable \cup {Absent}, f \in BOOLEAN : RefreshBegin(1, t, f)
  \/ RefreshFinish(1)
  \/ \E id \in UserIds, b \in BOOLEAN : updateStatus(id, b)
  \/ Tick

SpecRefresh == DirectoryInit /\ [][RefreshNext]_vars

----------------------------------------------------------------------------
(* /api/users: router.use(authenticateToken), then the guard of the route *)
(* and the handler of userController                                      *)

\* the response of a route, with req.user as authenticateToken set it, the
\* parsed :userId or :storeId and the argument of the request
RouteOutcome(op, user, status, error, target, arg) ==
  [op |-> op, user |-> user, status |-> status, error |-> error,
   target |-> target, arg |-> arg, at |-> now]

UpdateUserStatusNoSelfCheck(hdr, userId, is_active) ==
  LET a == authenticateToken(hdr, FALSE)
      id == parseInt(userId)
      Reply(user, status, error) ==
        RouteOutcome("updateUserStatus", user, status, error, id, is_active) IN
  /\ module = "loaded"
  /\ IF a.nexts = 0
     THEN last' = Reply(NoReqUser, a.status, a.error) /\ UNCHANGED users
     ELSE IF a.user.role \notin RolesOf([single |-> "system_admin"])
     THEN last' = Reply(a.user, 403, "INSUFFICIENT_PERMISSIONS") /\ UNCHANGED users
     ELSE IF "bool" \notin DOMAIN is_active
     THEN last' = Reply(a.user, 400, "INVALID_STATUS") /\ UNCHANGED users
     ELSE IF id.nan
     THEN last' = Reply(a.user, 500, "INTERNAL_ERROR") /\ UNCHANGED users
     ELSE IF findById(id.val) = NoUser
     THEN last' = Reply(a.user, 404, "USER_NOT_FOUND") /\ UNCHANGED users
     ELSE /\ users' = [users EXCEPT ![id.val].is_active = is_active.bool]
          /\ last' = Reply(a.user, 200, "")
  /\ UNCHANGED <<ratings, env, module, warned, now, tokenBlacklist, timers,
                 nextId, issued, reqs, rotationLog, req>>

\* PATCH /api/users/:userId/status: requireAdmin, updateUserStatus.
\* userId: req.params.userId; is_active: req.body.is_active, a boolean
\* [bool |-> b] or a value of another type.  A NaN id makes the query fail.
UpdateUserStatus(hdr, userId, is_active) ==
  LET a == authenticateToken(hdr, FALSE)
      id == parseInt(userId)
      Reply(user, status, error) ==
        RouteOutcome("updateUserStatus", user, status, error, id, is_active) IN
  /\ module = "loaded"
  /\ IF a.nexts = 0
     THEN last' = Reply(NoReqUser, a.status, a.error) /\ UNCHANGED users
     ELSE IF a.user.role \notin RolesOf([single |-> "system_admin"])
     THEN last' = Reply(a.user, 403, "INSUFFICIENT_PERMISSIONS") /\ UNCHANGED users
     ELSE IF "bool" \notin DOMAIN is_active
     THEN last' = Reply(a.user, 400, "INVALID_STATUS") /\ UNCHANGED users
     ELSE IF id.nan
     THEN last' = Reply(a.user, 500, "INTERNAL_ERROR") /\ UNCHANGED users
     ELSE IF findById(id.val) = NoUser
     THEN last' = Reply(a.user, 404, "USER_NOT_FOUND") /\ UNCHANGED users
     ELSE IF a.user.id = id.val /\ ~is_active.bool
     THEN last' = Reply(a.user, 400, "CANNOT_DEACTIVATE_SELF") /\ UNCHANGED users
     ELSE /\ users' = [users EXCEPT ![id.val].is_active = is_active.bool]
          /\ last' = Reply(a.user, 200, "")
  /\ UNCHANGED <<ratings, env, module, warned, now, tokenBlacklist, timers,
                 nextId, issued, reqs, rotationLog, req>>

\* GET /api/users/role/:roleName: getUsersByRole, no guard on the route
GetUsersByRole(hdr, roleName) ==
  LET a == authenticateToken(hdr, FALSE)
      validRoles == {"system_admin", "normal_user", "store_owner"}
      Reply(user, status, error) ==
        RouteOutcome("getUsersByRole", user, status, error, NaN, roleName) IN
  /\ module = "loaded"
  /\ last' =
       IF a.nexts = 0 THEN Reply(NoReqUser, a.status, a.error)
       ELSE IF roleName \notin validRoles THEN Reply(a.user, 404, "ROLE_NOT_FOUND")
       ELSE IF a.user.role # "system_admin"
               /\ a.user.role = "store_owner"
               /\ roleName \notin {"normal_user", "store_owner"}
       THEN Reply(a.user, 403, "INSUFFICIENT_PERMISSIONS")
       ELSE Reply(a.user, 200, "")
  /\ UNCHANGED <<ratings, env, module, warned, now, users, tokenBlacklist,
                 timers, nextId, issued, reqs, rotationLog, req>>

\* the users table with an account of every role
StaffUsers ==
  InitUsers @@
  (12 :> [name |-> "Owner", email |-> "owner@example.com",
          role |-> "store_owner", is_active |-> TRUE])

\* the row of id as login hands it to generateTokenPair
StaffRow(id) ==
  [id |-> id, name |-> StaffUsers[id].name, email |-> StaffUsers[id].email,
   role |-> StaffUsers[id].role]

\* a process under the default configuration in which every account has
\* logged in at time 0; only the access tokens matter here
UsersInit ==
  /\ env = [JWT_SECRET |-> 32, JWT_REFRESH_SECRET |-> 0, JWT_REFRESH_EXPIRE |-> 0]
  /\ module = "loaded"
  /\ warned = FALSE
  /\ now = 0
  /\ users = StaffUsers
  /\ tokenBlacklist = {}
  /\ timers = {}
  /\ nextId = 0
  /\ issued = {TokenAt(PayloadOf(StaffRow(id)), env.JWT_SECRET, JWT_EXPIRE, 0) :
                 id \in DOMAIN StaffUsers}
  /\ reqs = [i \in Slots |-> IdleReq]
  /\ rotationLog = <<>>
  /\ ratings = {}
  /\ req = NoRequest
  /\ last = NoOutcome

\* req.params.userId: ids of the table in several spellings, an unknown id
\* and a string that is no number
UserIdParams ==
  {<<"1">>, <<"2">>, <<"1", "2">>, <<"0", "1">>, <<"0">>, <<"x">>}

\* req.body.is_active: the booleans and a string
StatusInputs == {[bool |-> TRUE], [bool |-> FALSE], [str |-> "true"]}

\* req.params.roleName
RoleNames == Roles \cup {"guest"}

UsersNext ==
  \/ \E hdr \in ClientHeaders, userId \in UserIdParams, is_active \in StatusInputs :
       UpdateUserStatus(hdr, userId, is_active)
  \/ \E hdr \in ClientHeaders, roleName \in RoleNames :
       GetUsersByRole(hdr, roleName)

SpecUsers == UsersInit /\ [][UsersNext]_vars

----------------------------------------------------------------------------
(* /api/ratings: authenticateToken, requireNormalUser, ratingController   *)

MinRating == 1
MaxRating == 5

\* the stores table: ids of the active stores
Stores == {1, 2}

\* parseInt(rating, 10) of a JSON value: a number [num, frac], given by its
\* integer part and whether it has a fraction, or a string without digits
parseInt10(rating) ==
  IF "num" \in DOMAIN rating THEN [nan |-> FALSE, val |-> rating.num] ELSE NaN

\* validateRating(rating)
validateRating(rating) ==
  IF rating = Absent THEN [isValid |-> FALSE, value |-> NaN]
  ELSE LET numRating == parseInt10(rating) IN
       [isValid |-> ~numRating.nan /\ ~(numRating.val < MinRating)
                      /\ ~(numRating.val > MaxRating),
        value |-> numRating]

\* a row of the ratings table; by_role: the role of the requester who wrote it
RatingRow(user, storeId, rating) ==
  [user_id |-> user.id, store_id |-> storeId, rating |-> rating,
   by_role |-> user.role]

SameKey(r, q) == r.user_id = q.user_id /\ r.store_id = q.store_id

SubmitRatingInsertOnly(hdr, storeId, rating) ==
  LET a == authenticateToken(hdr, FALSE)
      ratingValidation == validateRating(rating)
      Reply(user, status, error) ==
        RouteOutcome("submitRating", user, status, error, storeId, rating) IN
  /\ module = "loaded"
  /\ IF a.nexts = 0
     THEN last' = Reply(NoReqUser, a.status, a.error) /\ UNCHANGED ratings
     ELSE IF a.user.role \notin RolesOf([single |-> "normal_user"])
     THEN last' = Reply(a.user, 403, "INSUFFICIENT_PERMISSIONS")
          /\ UNCHANGED ratings
     ELSE IF ~ratingValidation.isValid
     THEN last' = Reply(a.user, 400, "VALIDATION_ERROR") /\ UNCHANGED ratings
     ELSE IF "num" \notin DOMAIN storeId \/ storeId.num = 0
     THEN last' = Reply(a.user, 400, "INVALID_STORE_ID") /\ UNCHANGED ratings
     ELSE IF storeId.num \notin Stores
     THEN last' = Reply(a.user, 404, "STORE_NOT_FOUND") /\ UNCHANGED ratings
     ELSE /\ ratings' = ratings \cup
               {RatingRow(a.user, storeId.num, ratingValidation.value.val)}
          /\ last' = Reply(a.user, 200, "")
  /\ UNCHANGED <<env, module, warned, now, users, tokenBlacklist, timers,
                 nextId, issued, reqs, rotationLog, req>>

\* POST /api/ratings: submitRating, then Rating.submitRating (INSERT ... ON
\* CONFLICT (user_id, store_id) DO UPDATE).  storeId: req.body.storeId, a
\* number [num |-> n] or a string; rating: req.body.rating
SubmitRating(hdr, storeId, rating) ==
  LET a == authenticateToken(hdr, FALSE)
      ratingValidation == validateRating(rating)
      Reply(user, status, error) ==
        RouteOutcome("submitRating", user, status, error, storeId, rating) IN
  /\ module = "loaded"
  /\ IF a.nexts = 0
     THEN last' = Reply(NoReqUser, a.status, a.error) /\ UNCHANGED ratings
     ELSE IF a.user.role \notin RolesOf([single |-> "normal_user"])
     THEN last' = Reply(a.user, 403, "INSUFFICIENT_PERMISSIONS")
          /\ UNCHANGED ratings
     ELSE IF ~ratingValidation.isValid
     THEN last' = Reply(a.user, 400, "VALIDATION_ERROR") /\ UNCHANGED ratings
     ELSE IF "num" \notin DOMAIN storeId \/ storeId.num = 0
     THEN last' = Reply(a.user, 400, "INVALID_STORE_ID") /\ UNCHANGED ratings
     ELSE IF storeId.num \notin Stores
     THEN last' = Reply(a.user, 404, "STORE_NOT_FOUND") /\ UNCHANGED ratings
     ELSE LET row == RatingRow(a.user, storeId.num,
                               ratingValidation.value.val) IN
          /\ ratings' = {r \in ratings : ~SameKey(r, row)} \cup {row}
          /\ last' = Reply(a.user, 200, "")
  /\ UNCHANGED <<env, module, warned, now, users, tokenBlacklist, timers,
                 nextId, issued, reqs, rotationLog, req>>

\* DELETE /api/ratings/store/:storeId: deleteRating, then Rating.deleteRating.
\* A NaN id makes the query fail.
DeleteRating(hdr, storeId) ==
  LET a == authenticateToken(hdr, FALSE)
      id == parseInt(storeId)
      Reply(user, status, error) ==
        RouteOutcome("deleteRating", user, status, error, id, Absent) IN
  /\ module = "loaded"
  /\ IF a.nexts = 0
     THEN last' = Reply(NoReqUser, a.status, a.error) /\ UNCHANGED ratings
     ELSE IF a.user.role \notin RolesOf([single |-> "normal_user"])
     THEN last' = Reply(a.user, 403, "INSUFFICIENT_PERMISSIONS")
          /\ UNCHANGED ratings
     ELSE IF id.nan
     THEN last' = Reply(a.user, 500, "INTERNAL_ERROR") /\ UNCHANGED ratings
     ELSE LET deleted == {r \in ratings : r.user_id = a.user.id
                                           /\ r.store_id = id.val} IN
          IF deleted = {}
          THEN last' = Reply(a.user, 404, "RATING_NOT_FOUND")
               /\ UNCHANGED ratings
          ELSE ratings' = ratings \ deleted /\ last' = Reply(a.user, 200, "")
  /\ UNCHANGED <<env, module, warned, now, users, tokenBlacklist, timers,
                 nextId, issued, reqs, rotationLog, req>>

\* req.body.rating: absent, a string, the integers at both ends of the
\* valid range and next to them, and the fractions 0.5 and 4.5
RatingInputs ==
  {Absent, [str |-> "abc"]} \cup
  {[num |-> n, frac |-> FALSE] :
     n \in {MinRating - 1, MinRating, MaxRating, MaxRating + 1}} \cup
  {[num |-> n, frac |-> TRUE] : n \in {MinRating - 1, MaxRating - 1}}

\* req.body.storeId: 0, the stores, an unknown store and a string
StoreIdInputs == {[num |-> n] : n \in 0..3} \cup {[str |-> "1"]}

\* req.params.storeId
StoreIdParams == {<<"1">>, <<"2">>, <<"0", "2">>, <<"x">>}

RatingsNext ==
  \/ \E hdr \in ClientHeaders, storeId \in StoreIdInputs, rating \in RatingInputs :
       SubmitRating(hdr, storeId, rating)
  \/ \E hdr \in ClientHeaders, storeId \in StoreIdParams :
       DeleteRating(hdr, storeId)

SpecRatings == UsersInit /\ [][RatingsNext]_vars

----------------------------------------------------------------------------
(* Properties *)

\* C1: a request carrying a token that is in the blacklist (and so was
\* revoked by a successful blacklistToken and has not expired) is never let
\* through by authenticateToken and never answered with a new pair by the
\* refresh endpoint.
C1_RevokedTokenRejected ==
  /\ (last.op \in {"auth", "logout"} /\ last.blacklisted) => last.nexts = 0
  /\ (last.op = "refresh" /\ last.blacklisted) => last.status # 200

\* C2: no refresh token is exchanged for a new pair more than once.
C2_RotationOnce ==
  \A i, j \in DOMAIN rotationLog :
    i # j => rotationLog[i] # rotationLog[j]

\* C3: a refresh request that was waiting at its await while another request
\* with the same token was answered with a new pair does not itself return a
\* new pair.
C3_ConcurrentRotationOnce ==
  ~(last.op = "refresh" /\ last.conc /\ last.status = 200)

\* C4: a token of type 'refresh' presented as the Bearer credential never
\* passes authenticateToken, whatever the configuration.
C4_RefreshTokenNeverAuthenticates ==
  (last.op \in {"auth", "logout"} /\ IsJwt(last.token)
     /\ last.token.type = "refresh")
  => (last.nexts = 0 /\ last.user = NoReqUser)

\* C5: when a request with access token a was let through, the account is
\* then deactivated, and the next authenticateToken request carries the same
\* unexpired token a (and the directory answers), that request is rejected
\* with ACCOUNT_INACTIVE.
C5_DeactivationReportedInactive ==
  [][(/\ last.op = "auth" /\ last.nexts = 1
      /\ last'.op = "auth" /\ last'.hdr = last.hdr
      /\ last'.acct = "inactive" /\ ~last'.dbFails
      /\ now < last.token.exp)
     => (last'.nexts = 0 /\ last'.error = "ACCOUNT_INACTIVE")]_vars

C7_OwnershipPolicy ==
  last.op = "requireOwnershipOrAdmin"
  => IF last.user = NoReqUser
     THEN last.status = 401 /\ last.nexts = 0
     ELSE /\ last.nexts = 1 <=>
               \/ last.user.role = "system_admin"
               \/ parseInt(last.arg) = [nan |-> FALSE, val |-> last.user.id]
          /\ last.nexts = 1 => last.status = 0
          /\ last.nexts = 0 =>
               (last.status = 403 /\ last.error = "INSUFFICIENT_PERMISSIONS")

C7_Witness ==
  /\ last.op = "requireOwnershipOrAdmin"
  /\ last.user = [id |-> 12, role |-> "normal_user"]
  /\ last.arg = <<"1", "2">>
  /\ last.nexts = 1

\* the header is exactly 'Bearer', one space, and a non-empty token without
\* spaces
WellFormedBearer(h) ==
  /\ h.present
  /\ Len(h.str) >= 3
  /\ h.str[1] = Word("Bearer")
  /\ h.str[2] = Space
  /\ \A i \in 3..Len(h.str) : h.str[i] # Space

\* C8: for a header that is absent or not of the form 'Bearer <token>',
\* authenticateToken answers 401 MISSING_TOKEN without verifying a signature
\* or querying the directory.
C8_BearerExtraction ==
  (last.op = "auth" /\ ~WellFormedBearer(last.hdr))
  => /\ last.status = 401 /\ last.error = "MISSING_TOKEN"
     /\ last.nexts = 0 /\ last.user = NoReqUser
     /\ ~last.sigChecked /\ ~last.lookedUp

C8_Witness ==
  /\ last.op = "auth"
  /\ last.hdr = Header(<<Word("Token"), Space, Word("abc")>>)
  /\ last.error = "MISSING_TOKEN"

\* the header carries one whole token that is signed with JWT_SECRET and has
\* not expired
CarriesValidToken(h) ==
  /\ WellFormedBearer(h)
  /\ Len(h.str) = 3
  /\ IsJwt(h.str[3])
  /\ h.str[3].key = JWT_SECRET
  /\ now < h.str[3].exp

\* C9: optionalAuth sends no response and calls next() exactly once; req.user
\* is set exactly when the token verified and the directory returned an
\* active user, and then it is that user.
C9_OptionalAuthNeverRejects ==
  last.op = "optional"
  => /\ last.status = 0 /\ last.error = "" /\ last.nexts = 1
     /\ last.user # NoReqUser <=>
          (CarriesValidToken(last.hdr) /\ ~last.dbFails
           /\ last.acct = "active")
     /\ last.user # NoReqUser =>
          last.user = [id |-> last.token.userId,
                       role |-> users[last.token.userId].role]

C9_Witness ==
  /\ last.op = "optional"
  /\ last.sigChecked
  /\ ~CarriesValidToken(last.hdr)
  /\ last.nexts = 1

C11_RevocationKeptUntilExpiry ==
  [][\A t \in tokenBlacklist : now' < ExpiryOf(t) => t \in tokenBlacklist']_vars

\* C12: right after a sweep the blacklist holds no token whose expiry time
\* has passed, holds every token it held before whose expiry time has not
\* passed, and holds nothing else.
C12_SweepRemovesExactlyExpired ==
  last.op = "sweep" =>
    /\ \A t \in last.after : ~(ExpiryOf(t) < last.at)
    /\ \A t \in last.before : ~(ExpiryOf(t) < last.at) => t \in last.after
    /\ last.after \subseteq last.before

\* a sweep that removed an expired token and kept one that is still valid
C12_Witness ==
  /\ last.op = "sweep"
  /\ \E t \in last.before : ExpiryOf(t) < last.at /\ t \notin last.after
  /\ \E t \in last.after : last.at < ExpiryOf(t)

\* the refreshToken of a request body that verifyRefreshToken cannot decode:
\* malformed, or not signed with the refresh secret
Undecodable(t) == t # Absent /\ (~IsJwt(t) \/ t.key # JWT_REFRESH_SECRET)

\* C20: a logout whose body carries a malformed or wrongly signed refresh
\* token is answered 200, and apart from the entry of the request's own
\* access token the blacklist and the removal timers are as before.
C20_UndecodableRevocationNoOp ==
  [][(last' # last /\ last'.op = "logout" /\ last'.nexts = 1
        /\ Undecodable(last'.body))
     => /\ last'.status = 200
        /\ tokenBlacklist' \ {last'.token} = tokenBlacklist \ {last'.token}
        /\ {tm \in timers' : tm.token # last'.token}
             = {tm \in timers : tm.token # last'.token}]_vars

\* a logout that was handed a forged refresh token while another token was
\* already revoked
C20_Witness ==
  /\ last.op = "logout" /\ last.status = 200 /\ last.body = ForgedToken
  /\ tokenBlacklist # {}

\* C13: a token signed with JWT_SECRET whose expiry time is at or before
\* the current time (also one generated with a negative lifetime) fails
\* verifyToken with TokenExpiredError, authenticateToken answers it with 401
\* TOKEN_EXPIRED and does not call next(), and a token that verifyToken
\* has rejected as expired is rejected as expired ever after.
C13_ExpiredNeverAccepted ==
  /\ [](\A t \in issued :
          (t.key = JWT_SECRET /\ t.exp <= now)
            => verifyToken(t) = "TokenExpiredError")
  /\ []((last.op = "auth" /\ IsJwt(last.token) /\ last.token.key = JWT_SECRET
          /\ last.token.exp <= last.at)
        => (last.status = 401 /\ last.error = "TOKEN_EXPIRED"
            /\ last.nexts = 0 /\ last.user = NoReqUser))
  /\ [][\A t \in issued :
          verifyToken(t) = "TokenExpiredError"
            => verifyToken(t)' = "TokenExpiredError"]_vars

\* a token generated with a negative lifetime was rejected as expired
C13_Witness ==
  /\ last.op = "auth" /\ last.error = "TOKEN_EXPIRED"
  /\ last.token.exp < last.token.iat

\* C14: whenever authenticateToken calls next(), req.user.id is the token's
\* userId and req.user.role is the role the users table holds for that id
\* at the time of the request, whatever role the token carries.
C14_DirectoryAuthoritative ==
  (last.op = "auth" /\ last.nexts = 1)
    => (last.user.id = last.token.userId /\ last.user.role = last.dirRole)

\* next() was called for a token whose role claim differs from the table's
C14_Witness ==
  /\ last.op = "auth" /\ last.nexts = 1
  /\ last.token.role # last.dirRole

C19_PayloadMinimized ==
  last.op = "generateTokenPair"
    => /\ \A t \in {last.pair.accessToken, last.pair.refreshToken} :
            /\ t.extra = {}
            /\ t.userId = last.payload.userId /\ t.email = last.payload.email
            /\ t.role = last.payload.role /\ t.name = last.payload.name
       /\ last.pair.accessToken.type = "none"
       /\ last.pair.accessToken.tokenId = 0
       /\ last.pair.refreshToken.type = "refresh"
       /\ last.pair.refreshToken.tokenId = last.tokenId

\* a pair was generated from a payload that had password_hash and address
C19_Witness ==
  /\ last.op = "generateTokenPair"
  /\ last.payload.extra = {"password_hash", "address"}

\* C16: whenever authenticateToken calls next(), optionalAuth sets req.user
\* or the refresh endpoint returns a new pair, the presented token has gone
\* through jwt.verify and carries the signature of the secret of its path
\* (and on the two middleware paths is unexpired); a well-formed token
\* signed with any other key never gets that far.
C16_VerifiedBeforeAccess ==
  /\ (last.op \in {"auth", "optional"} /\ last.user # NoReqUser)
     => /\ last.sigChecked
        /\ IsJwt(last.token) /\ last.token.key = JWT_SECRET
        /\ last.at < last.token.exp
  /\ (last.op = "refresh" /\ last.status = 200)
     => /\ IsJwt(last.token) /\ last.token.key = JWT_REFRESH_SECRET
        /\ last.token.type = "refresh"

\* a forged token that decodes as an unexpired admin token was turned away
C16_Witness ==
  /\ last.op \in {"auth", "optional"}
  /\ last.token = ForgedToken /\ last.at < last.token.exp
  /\ last.user = NoReqUser /\ last.sigChecked

\* C17: authenticateToken ends every request in exactly one of two ways:
\* next() called once with req.user set and no response sent, or one error
\* response sent with next() not called and req.user not set; this also
\* when the lookup in the users table throws.
C17_ExactlyOneResult ==
  last.op = "auth"
    => \/ (last.nexts = 1 /\ last.status = 0 /\ last.user # NoReqUser)
       \/ (last.nexts = 0 /\ last.status \in {401, 500} /\ last.error # ""
           /\ last.user = NoReqUser)

\* the lookup threw and the request was answered with 500 INTERNAL_ERROR
C17_Witness ==
  /\ last.op = "auth" /\ last.dbFails
  /\ last.status = 500 /\ last.error = "INTERNAL_ERROR" /\ last.nexts = 0

\* a refresh token with the signature of the refresh secret
SignedRefresh(t) ==
  IsJwt(t) /\ t.key = JWT_REFRESH_SECRET /\ t.type = "refresh"

\* C21: when logout hands blacklistToken a correctly signed refresh token
\* whose expiry time has passed, the token is in the blacklist afterwards.
C21_ExpiredTokenRevocable ==
  [][(last' # last /\ last'.op = "logout" /\ last'.nexts = 1
        /\ SignedRefresh(last'.body) /\ last'.body.exp <= now)
     => last'.body \in tokenBlacklist']_vars

\* C22: when logout answers 200 to a request with a valid access token in
\* the header and a correctly signed, unexpired refresh token in the body,
\* both tokens are in the blacklist.
C22_LogoutRevokesBoth ==
  [][(last' # last /\ last'.op = "logout" /\ last'.status = 200
        /\ SignedRefresh(last'.body) /\ now < last'.body.exp)
     => /\ last'.token \in tokenBlacklist'
        /\ last'.body \in tokenBlacklist']_vars

\* a logout with both tokens of a session has just put both into the
\* blacklist
C22_Witness ==
  /\ last.op = "logout" /\ last.status = 200
  /\ SignedRefresh(last.body) /\ last.at < last.body.exp
  /\ last.token.type = "none"
  /\ {last.token, last.body} \subseteq tokenBlacklist

\* C23: a well-formed token that is not of type 'refresh', presented to the
\* refresh endpoint, is answered 401 INVALID_REFRESH_TOKEN.
C23_KindEnforcedWith401 ==
  (last.op = "refresh" /\ IsJwt(last.token) /\ last.token.type # "refresh")
    => (last.status = 401 /\ last.error = "INVALID_REFRESH_TOKEN")

\* C24: a refresh request that is answered 400 or 401 issues no token and
\* leaves the blacklist and the removal timers as they were.
C24_FailedRefreshChangesNothing ==
  [][(last' # last /\ last'.op = "refresh" /\ last'.status \in {400, 401})
     => UNCHANGED <<tokenBlacklist, timers, issued, nextId, rotationLog>>]_vars

\* a refresh request with a token that still verifies was turned down
\* because its account is inactive, and the token is not in the blacklist
C24_Witness ==
  /\ last.op = "refresh" /\ last.status = 401
  /\ verifyRefreshToken(last.token) = "ok"
  /\ last.token \notin tokenBlacklist

\* C25: the refresh token returned by a successful refresh is another
\* string than the presented one, its tokenId is that of no token issued
\* before, and it is not in the blacklist when the response is sent.
C25_RotationYieldsFreshToken ==
  [][(last' # last /\ last'.op = "refresh" /\ last'.status = 200)
     => LET r == last'.pair.refreshToken IN
        /\ r # last'.token
        /\ \A t \in issued : t.tokenId # r.tokenId
        /\ r \notin tokenBlacklist']_vars

\* a refresh succeeded in the tick in which the presented token was issued
C25_Witness ==
  /\ last.op = "refresh" /\ last.status = 200
  /\ last.pair.refreshToken.iat = last.token.iat
  /\ last.token \in tokenBlacklist

\* C26: two consecutive successful logins return different access tokens.
C26_SessionsHaveDistinctAccessTokens ==
  [][(last.op = "login" /\ last.status = 200
        /\ last'.op = "login" /\ last'.status = 200
        /\ last'.pair.refreshToken # last.pair.refreshToken)
     => last'.pair.accessToken # last.pair.accessToken]_vars

\* C27: is_active of an account changes only in a step of updateUserStatus
\* whose requester authenticateToken has identified as a system_admin, and
\* an admin's request to deactivate the admin's own account is answered
\* CANNOT_DEACTIVATE_SELF and changes no account.
C27_StatusChangeAdminOnly ==
  [][/\ users' # users
        => /\ last'.op = "updateUserStatus" /\ last'.status = 200
           /\ last'.user # NoReqUser /\ last'.user.role = "system_admin"
     /\ (last' # last /\ last'.op = "updateUserStatus"
           /\ last'.user.role = "system_admin"
           /\ "bool" \in DOMAIN last'.arg /\ ~last'.arg.bool
           /\ ~last'.target.nan /\ last'.target.val = last'.user.id)
        => (last'.error = "CANNOT_DEACTIVATE_SELF" /\ users' = users)]_vars

\* the admin was refused the deactivation of the admin's own account after
\* having deactivated another one
C27_Witness ==
  /\ last.op = "updateUserStatus" /\ last.error = "CANNOT_DEACTIVATE_SELF"
  /\ \E id \in DOMAIN users : ~users[id].is_active

\* C28: an admin's updateUserStatus request for an existing account other
\* than the admin's own, asking for the status the account does not have,
\* is answered 200 and gives the account that status.
C28_StatusUpdateBothWays ==
  [][(last' # last /\ last'.op = "updateUserStatus"
        /\ last'.user.role = "system_admin"
        /\ "bool" \in DOMAIN last'.arg /\ ~last'.target.nan
        /\ last'.target.val \in DOMAIN users
        /\ last'.target.val # last'.user.id
        /\ users[last'.target.val].is_active # last'.arg.bool)
     => /\ last'.status = 200
        /\ users'[last'.target.val].is_active = last'.arg.bool]_vars

\* C29: an authenticated request for the users of a valid role is answered
\* with the list when the requester is a system_admin, or a store_owner
\* asking for normal_user or store_owner, and with 403
\* INSUFFICIENT_PERMISSIONS otherwise.
C29_ListingLimitedToStaff ==
  (last.op = "getUsersByRole" /\ last.user # NoReqUser /\ last.arg \in Roles)
    => IF \/ last.user.role = "system_admin"
          \/ (last.user.role = "store_owner"
              /\ last.arg \in {"normal_user", "store_owner"})
       THEN last.status = 200
       ELSE last.status = 403 /\ last.error = "INSUFFICIENT_PERMISSIONS"

\* C30: every stored rating is an integer from 1 to 5 written by a
\* requester whose role was normal_user, no two stored ratings have the
\* same user and store, and right after a successful submission the stored
\* rating of that user and store is the submitted value.
C30_RatingStoreInvariant ==
  /\ \A r \in ratings :
       /\ r.rating \in MinRating..MaxRating
       /\ r.by_role = "normal_user"
       /\ \A q \in ratings : SameKey(r, q) => r = q
  /\ (last.op = "submitRating" /\ last.status = 200)
     => RatingRow(last.user, last.target.num, last.arg.num) \in ratings

\* a rating was replaced by a submission with a fractional value while the
\* user had a rating for the other store as well
C30_Witness ==
  /\ last.op = "submitRating" /\ last.status = 200 /\ last.arg.frac
  /\ Cardinality(ratings) = 2

====
